---- MODULE Spec2Model ----
(***************************************************************************)
(* Run/state synchronisation core of the flow editor:                      *)
(*   - StartNode (nodes/components/start-node.tsx): handlePlay, the        *)
(*     stream event handler and the unmount cleanup effect;                *)
(*   - useEnhancedFlowActions (hooks/use-enhanced-flow-actions.ts):        *)
(*     saveCurrentFlowWithCompleteState and loadFlowWithCompleteState;     *)
(*   - Flow (components/Flow.tsx): the live node list and its edits.       *)
(* The stores and collaborators those files import (node-status-context,   *)
(* node-context, use-node-state, flow-context, services/api,               *)
(* services/flow-service) are modelled from their specification.           *)
(***************************************************************************)
EXTENDS Integers, Sequences, FiniteSets, TLC

\* ------------------------------------------------------------------ bounds
\* Streams the run-request collaborator may open in one behaviour.
MaxRuns == 2
\* Events a stream may hold in flight (sent, not yet delivered).
MaxQueue == 1
\* Flow records the persistence collaborator may hold.
MaxFlows == 2
\* Calls of saveCurrentFlowWithCompleteState that may be suspended at once.
MaxSaves == 1
\* Calls of loadFlowWithCompleteState that may be suspended at once.
MaxLoads == 2
\* Of these, the calls that may be suspended at once while saves and edits of
\* the stores and of the graph are interleaved with them (SpecFlow).
MaxSeqLoads == 1

\* ----------------------------------------------------------------- domains
StartNodes == {"start_1", "start_2"}
AgentNodes == {"portfolio_manager"}
NodeIds == StartNodes \cup AgentNodes

\* A node of the live graph is absent, or its data bucket carries no
\* internal_state key, or carries the blob named.
Missing == "missing"
NoKey == "nokey"

\* A node's internal state (use-node-state) is absent, the empty object, or a
\* non-empty blob; a Node Context Store entry is absent or a payload.
None == "none"
Empty == "empty"
Blobs == {"x1"}
Payloads == {"p"}

FlowIds == 1..MaxFlows

\* What the ticker input can hold: characters typed by the user.
TickerInputs == {<<>>, <<" ">>, <<"A", ",", " ", "B">>}

EventTypes == {"progress", "complete", "error"}
Terminal == {"complete", "error"}

NoStates == [n \in NodeIds |-> None]
NoGraph == [n \in NodeIds |-> Missing]

\* flow.data.nodeContextData: absent, or a mapping node id -> payload.
NoCtx == [has |-> FALSE, map |-> NoStates]
Ctx(m) == [has |-> TRUE, map |-> m]

\* Persisted Flow record {id, nodes, data: {nodeContextData?}}; id 0: no record.
NoFlow == [id |-> 0, nodes |-> NoGraph, ctx |-> NoCtx]

IdleSave == [pc |-> "idle", currentNodes |-> NoGraph, nodeContextData |-> NoStates,
             states |-> NoStates, flow |-> NoFlow]
\* alone, stale, over: history only. alone: no other load and no context write
\* ran while this load was suspended; stale: when it began, another flow was
\* open and the store held that flow's persisted context mapping, not empty;
\* over: the flow whose load was requested last while this one was suspended.
IdleLoad == [pc |-> "idle", flow |-> NoFlow, alone |-> FALSE, stale |-> FALSE,
             over |-> NoFlow]

NoRun == [owner |-> "", st |-> "none", queue |-> <<>>, tickers |-> <<>>,
          agents |-> {}]

VARIABLES
    nodes,              \* live graph: node id -> Missing | NoKey | blob
    nodeStates,         \* Node Status Store: node id -> RunStatus
    tickers,            \* StartNode state, per mounted start node
    isProcessing,       \* StartNode state
    abortControllerRef, \* StartNode ref: 0 (null) or the run whose handle it holds
    runs,               \* run-request collaborator: the streams it opened
    nextRun,            \* id the next stream gets
    internalState,      \* use-node-state, current scope: node id -> None | Empty | blob
    nodeStateFlowId,    \* use-node-state: the flow id scoping it (0: none set)
    nodeContext,        \* Node Context Store: node id -> None | payload
    flows,              \* persistence collaborator: flow id -> record
    saves,              \* suspended saveCurrentFlowWithCompleteState calls
    loads,              \* suspended loadFlowWithCompleteState calls
    lastOp,             \* the operation that acted last, and its subject
    lastTrans,          \* status transitions the last operation performed
    statusWriter        \* run whose event last wrote the status store since the last handlePlay

runVars == <<nodeStates, nextRun, statusWriter>>
compVars == <<tickers, isProcessing, abortControllerRef, runs>>
flowVars == <<internalState, nodeStateFlowId, nodeContext, flows, saves, loads>>

vars == <<nodes, nodeStates, tickers, isProcessing, abortControllerRef, runs,
          nextRun, internalState, nodeStateFlowId, nodeContext, flows, saves,
          loads, lastOp, lastTrans, statusWriter>>

\* ----------------------------------------------------------- pure helpers
RECURSIVE TrimStart(_)
TrimStart(s) ==
    IF s # <<>> /\ Head(s) = " " THEN TrimStart(Tail(s)) ELSE s

RECURSIVE TrimEnd(_)
TrimEnd(s) ==
    IF s # <<>> /\ s[Len(s)] = " " THEN TrimEnd(SubSeq(s, 1, Len(s) - 1)) ELSE s

Trim(s) == TrimEnd(TrimStart(s))

\* tickers.split(','): the pieces between commas (one piece when there is none).
RECURSIVE Split(_, _)
Split(s, cur) ==
    IF s = <<>> THEN <<cur>>
    ELSE IF Head(s) = "," THEN <<cur>> \o Split(Tail(s), <<>>)
    ELSE Split(Tail(s), Append(cur, Head(s)))

TickerList(t) ==
    LET parts == Split(t, <<>>)
    IN  [i \in 1..Len(parts) |-> Trim(parts[i])]

\* getNodes().map(node => node.id).filter(Boolean)
SelectedAgents(ns) == {n \in NodeIds : ns[n] # Missing}

Mounted(n) == nodes[n] # Missing

\* Play button: disabled={isProcessing || !tickers.trim()}
PlayEnabledWhileProcessing(n) == Trim(tickers[n]) # <<>>

PlayEnabled(n) == ~isProcessing[n] /\ Trim(tickers[n]) # <<>>

\* -------------------------------------------------------- Node Status Store
ResetAllStatuses(ns) == [n \in NodeIds |-> "IDLE"]

UpdateNodeStatus(ns, id, st) == [ns EXCEPT ![id] = st]

\* The status transitions between two contents of the store, tagged by the
\* store operation that made them.
Trans(via, old, new) ==
    {<<via, n, old[n], new[n]>> : n \in {m \in NodeIds : old[m] # new[m]}}

\* handlePlay's two store calls, in the order the handler makes them.
PlayStatusesNoReset(ns, id) == UpdateNodeStatus(ns, id, "IN_PROGRESS")

PlayStatuses(ns, id) ==
    UpdateNodeStatus(ResetAllStatuses(ns), id, "IN_PROGRESS")

\* -------------------------------------------------- run-request collaborator
\* The cancellation handle of run s: closes the stream; what was in flight is
\* never handed to the handler.
Closed(r, how) == [NoRun EXCEPT !.owner = r.owner, !.st = how]

Abort(rs, s) ==
    IF rs[s].st = "live" THEN [rs EXCEPT ![s] = Closed(rs[s], "cancelled")] ELSE rs

AbortRef(rs, ref) == IF ref # 0 THEN Abort(rs, ref) ELSE rs

\* api.runHedgeFund(request, handler): a new stream, owned by the start node
\* whose handler it calls.
RunHedgeFund(rs, id, owner, tl, agents) ==
    [rs EXCEPT ![id] = [owner |-> owner, st |-> "live", queue |-> <<>>,
                        tickers |-> tl, agents |-> agents]]

Live(s) == runs[s].st = "live"

LiveRuns == {s \in 1..MaxRuns : Live(s)}

\* ------------------------------------------------------------------- Init
Init ==
    /\ nodes = [n \in NodeIds |-> NoKey]
    /\ nodeStates = [n \in NodeIds |-> "IDLE"]
    /\ tickers = [n \in StartNodes |-> <<>>]
    /\ isProcessing = [n \in StartNodes |-> FALSE]
    /\ abortControllerRef = [n \in StartNodes |-> 0]
    /\ runs = [s \in 1..MaxRuns |-> NoRun]
    /\ nextRun = 1
    /\ internalState = NoStates
    /\ nodeStateFlowId = 0
    /\ nodeContext = NoStates
    /\ flows = [i \in FlowIds |-> NoFlow]
    /\ saves = [k \in 1..MaxSaves |-> IdleSave]
    /\ loads = [j \in 1..MaxLoads |-> IdleLoad]
    /\ lastOp = <<"other", "">>
    /\ lastTrans = {}
    /\ statusWriter = 0

\* A workspace opened over records persisted by earlier sessions: record 1 was
\* saved with blob x1 and context p for portfolio_manager, record 2 by the base
\* save alone, from a graph without start_2 and with no internal state.
Stored(i) ==
    IF i = 1
    THEN [id |-> 1, nodes |-> [n \in NodeIds |-> IF n \in AgentNodes THEN "x1" ELSE NoKey],
          ctx |-> Ctx([n \in NodeIds |-> IF n \in AgentNodes THEN "p" ELSE None])]
    ELSE IF i = 2
    THEN [id |-> 2, nodes |-> [n \in NodeIds |-> IF n = "start_2" THEN Missing ELSE NoKey],
          ctx |-> NoCtx]
    ELSE NoFlow

InitStored ==
    /\ nodes = [n \in NodeIds |-> NoKey]
    /\ nodeStates = [n \in NodeIds |-> "IDLE"]
    /\ tickers = [n \in StartNodes |-> <<>>]
    /\ isProcessing = [n \in StartNodes |-> FALSE]
    /\ abortControllerRef = [n \in StartNodes |-> 0]
    /\ runs = [s \in 1..MaxRuns |-> NoRun]
    /\ nextRun = 1
    /\ internalState = NoStates
    /\ nodeStateFlowId = 0
    /\ nodeContext = NoStates
    /\ flows = [i \in FlowIds |-> Stored(i)]
    /\ saves = [k \in 1..MaxSaves |-> IdleSave]
    /\ loads = [j \in 1..MaxLoads |-> IdleLoad]
    /\ lastOp = <<"other", "">>
    /\ lastTrans = {}
    /\ statusWriter = 0

\* ------------------------------------------------------- StartNode actions
HandleTickersChange(n, v) ==
    /\ Mounted(n)
    /\ tickers[n] # v
    /\ tickers' = [tickers EXCEPT ![n] = v]
    /\ lastOp' = <<"other", "">>
    /\ lastTrans' = {}
    /\ UNCHANGED <<nodes, nodeStates, isProcessing, abortControllerRef, runs,
                   nextRun, statusWriter, flowVars>>

HandlePlay(n) ==
    /\ Mounted(n)
    /\ PlayEnabled(n)
    /\ nextRun <= MaxRuns
    /\ isProcessing' = [isProcessing EXCEPT ![n] = TRUE]
    /\ nodeStates' = PlayStatuses(nodeStates, n)
    /\ lastTrans' = Trans("resetAll", nodeStates, ResetAllStatuses(nodeStates))
                    \cup Trans("setStatus", ResetAllStatuses(nodeStates),
                               PlayStatuses(nodeStates, n))
    /\ runs' = RunHedgeFund(AbortRef(runs, abortControllerRef[n]), nextRun, n,
                            TickerList(tickers[n]), SelectedAgents(nodes))
    /\ abortControllerRef' = [abortControllerRef EXCEPT ![n] = nextRun]
    /\ nextRun' = nextRun + 1
    /\ lastOp' = <<"handlePlay", n>>
    /\ statusWriter' = 0
    /\ UNCHANGED <<nodes, tickers, flowVars>>

\* The status the handler writes for a terminal event.
EventStatusAlwaysComplete(e) == "COMPLETE"

EventStatus(e) == IF e = "complete" THEN "COMPLETE" ELSE "ERROR"

\* The node an event identifies: a progress event reports on an agent.
EventNode(e) == IF e = "progress" THEN "portfolio_manager" ELSE ""

\* The handler handlePlay gave to runHedgeFund, called with run s's next event.
OnEvent(s) ==
    /\ Live(s)
    /\ runs[s].queue # <<>>
    /\ LET e == Head(runs[s].queue)
           id == runs[s].owner
       IN  IF e \in Terminal
           THEN /\ isProcessing' = [isProcessing EXCEPT ![id] = FALSE]
                /\ nodeStates' = UpdateNodeStatus(nodeStates, id, EventStatus(e))
                /\ lastTrans' = Trans("setStatus", nodeStates, nodeStates')
                /\ runs' = [runs EXCEPT ![s] = Closed(runs[s], "terminal")]
                /\ statusWriter' = s
                /\ lastOp' = <<"event", id>>
           ELSE /\ runs' = [runs EXCEPT ![s].queue = Tail(runs[s].queue)]
                /\ lastTrans' = {}
                /\ lastOp' = <<"other", "">>
                /\ UNCHANGED <<isProcessing, nodeStates, statusWriter>>
    /\ UNCHANGED <<nodes, tickers, abortControllerRef, nextRun, flowVars>>

\* The backend pushes an event onto run s's stream.
ServerEmit(s, e) ==
    /\ Live(s)
    /\ Len(runs[s].queue) < MaxQueue
    /\ \A i \in 1..Len(runs[s].queue) : runs[s].queue[i] \notin Terminal
    /\ runs' = [runs EXCEPT ![s].queue = Append(runs[s].queue, e)]
    /\ lastOp' = <<"other", "">>
    /\ lastTrans' = {}
    /\ UNCHANGED <<nodes, nodeStates, tickers, isProcessing, abortControllerRef,
                   nextRun, statusWriter, flowVars>>

\* ------------------------------------------------------------ graph edits
\* setNodes / applied node changes: the start nodes leaving the graph unmount
\* (their cleanup effect runs and their component state is gone); the ones
\* entering it mount with fresh state.
Leaving(new) == {n \in StartNodes : nodes[n] # Missing /\ new[n] = Missing}

ApplyNodes(new) ==
    /\ nodes' = new
    /\ runs' = [s \in 1..MaxRuns |->
                  IF \E n \in Leaving(new) : abortControllerRef[n] = s
                  THEN Abort(runs, s)[s] ELSE runs[s]]
    /\ abortControllerRef' = [n \in StartNodes |->
                  IF n \in Leaving(new) THEN 0 ELSE abortControllerRef[n]]
    /\ isProcessing' = [n \in StartNodes |->
                  IF n \in Leaving(new) THEN FALSE ELSE isProcessing[n]]
    /\ tickers' = [n \in StartNodes |->
                  IF n \in Leaving(new) THEN <<>> ELSE tickers[n]]

OnNodesChange(n) ==
    /\ ApplyNodes([nodes EXCEPT ![n] = IF nodes[n] = Missing THEN NoKey ELSE Missing])
    /\ lastOp' = <<"other", "">>
    /\ lastTrans' = {}
    /\ UNCHANGED <<runVars, flowVars>>

\* ------------------------------------------------ stores used by save/load
\* use-node-state. Only the scope set last holds entries: the one writer of
\* the scope, loadFlowWithCompleteState, clears every entry as it sets it.
ClearAllNodeStates == NoStates

SetNodeInternalStateOp(is, id, v) == [is EXCEPT ![id] = v]

\* Node Context Store.
ResetAllNodes == NoStates

ExportNodeContextData(ctx) == [n \in NodeIds |-> ctx[n]]

ImportNodeContextData(m) == [n \in NodeIds |-> m[n]]

\* ------------------------------------------- saveCurrentFlowWithCompleteState
\* internalState && Object.keys(internalState).length > 0
HasState(v) == v # None /\ v # Empty

\* nodesWithStates: {...node, data: {...node.data, ...(has state ? {internal_state} : {})}}
NodesWithStates(ns, is) ==
    [n \in NodeIds |->
        IF ns[n] = Missing THEN Missing
        ELSE IF HasState(is[n]) THEN is[n]
        ELSE ns[n]]

\* saveCurrentFlow (flow-context): writes the graph it captured into record id,
\* creating the record when there is none; the record's data is left alone.
BaseSaved(old, id, ns) ==
    [id |-> id, nodes |-> ns, ctx |-> old.ctx]

\* {...savedFlow, data: {...savedFlow.data, nodeContextData}}
SavePayload(savedFlow, nodeContextData) ==
    [savedFlow EXCEPT !.ctx = Ctx(nodeContextData)]

\* flowService.updateFlow(id, payload): the record merged with the payload.
UpdateFlow(old, payload) ==
    [id |-> old.id, nodes |-> payload.nodes, ctx |-> payload.ctx]

\* How one call ran: "snapshotThrows" (getNodes or exportNodeContextData threw),
\* "baseNull", "baseThrows", "updateThrows", "updated".
SavePaths == {"snapshotThrows", "baseNull", "baseThrows", "updateThrows", "updated"}

\* The inner try block: what it returns or throws.
InnerTry(path) ==
    CASE path = "updated" -> "flow"
      [] path = "baseNull" -> "null"
      [] OTHER -> "throw"

\* catch (err) { console.error(...); return null; }
OuterCatchRethrows(outcome) == outcome

OuterCatch(outcome) == IF outcome = "throw" THEN "null" ELSE outcome

SaveReturns(path) ==
    OuterCatch(IF path = "snapshotThrows" THEN "throw" ELSE InnerTry(path))

\* finally { reactFlowInstance.setNodes(currentNodes); }
RestoreNodesOnSuccessOnly(path, currentNodes, live) ==
    IF path = "updated" THEN currentNodes ELSE live

\* (a restore node by node, which keeps what was edited meanwhile)
RestoreNodesNodeByNode(path, currentNodes, live) ==
    [n \in NodeIds |->
        IF live[n] = Missing \/ currentNodes[n] = Missing THEN live[n]
        ELSE currentNodes[n]]

RestoreNodes(path, currentNodes, live) == currentNodes

\* History only: the live node list is no longer the one the save applied.
Edited(k) == saves[k].pc # "idle" /\ nodes # saves[k].flow.nodes

SaveReturn(k, path) ==
    <<"saveReturn", [kind |-> SaveReturns(path), path |-> path, edited |-> Edited(k)]>>

\* getNodes() or exportNodeContextData() throws: nothing was applied.
SaveSnapshotFails(k) ==
    /\ saves[k].pc = "idle"
    /\ lastOp' = SaveReturn(k, "snapshotThrows")
    /\ lastTrans' = {}
    /\ UNCHANGED <<nodes, runVars, compVars, flowVars>>

\* Lines 24-48, up to the await of saveCurrentFlow, which captures the live
\* (enhanced) node list as it is called.
SaveBegin(k) ==
    /\ saves[k].pc = "idle"
    /\ LET enhanced == NodesWithStates(nodes, internalState)
       IN  /\ saves' = [saves EXCEPT ![k] =
                          [pc |-> "base", currentNodes |-> nodes,
                           nodeContextData |-> ExportNodeContextData(nodeContext),
                           states |-> internalState,
                           flow |-> [NoFlow EXCEPT !.nodes = enhanced]]]
           /\ ApplyNodes(enhanced)
    /\ lastOp' = <<"other", "">>
    /\ lastTrans' = {}
    /\ UNCHANGED <<runVars, internalState, nodeStateFlowId, nodeContext, flows, loads>>

\* saveCurrentFlow resolves with the saved Flow: lines 48-58, up to the await
\* of flowService.updateFlow.
SaveBaseOk(k, id) ==
    /\ saves[k].pc = "base"
    /\ LET saved == BaseSaved(flows[id], id, saves[k].flow.nodes)
       IN  /\ flows' = [flows EXCEPT ![id] = saved]
           /\ saves' = [saves EXCEPT ![k].pc = "update", ![k].flow = saved]
    /\ lastOp' = <<"other", "">>
    /\ lastTrans' = {}
    /\ UNCHANGED <<nodes, runVars, compVars, internalState, nodeStateFlowId,
                   nodeContext, loads>>

\* saveCurrentFlow resolves with null or rejects: lines 63-71.
SaveBaseFails(k, path) ==
    /\ saves[k].pc = "base"
    /\ path \in {"baseNull", "baseThrows"}
    /\ ApplyNodes(RestoreNodes(path, saves[k].currentNodes, nodes))
    /\ lastOp' = SaveReturn(k, path)
    /\ saves' = [saves EXCEPT ![k] = IdleSave]
    /\ lastTrans' = {}
    /\ UNCHANGED <<runVars, internalState, nodeStateFlowId, nodeContext, flows, loads>>

\* flowService.updateFlow resolves: lines 60-67.
SaveUpdateOk(k) ==
    /\ saves[k].pc = "update"
    /\ LET id == saves[k].flow.id
           updatedFlow == UpdateFlow(flows[id],
                              SavePayload(saves[k].flow, saves[k].nodeContextData))
       IN  flows' = [flows EXCEPT ![id] = updatedFlow]
    /\ lastOp' = SaveReturn(k, "updated")
    /\ ApplyNodes(RestoreNodes("updated", saves[k].currentNodes, nodes))
    /\ saves' = [saves EXCEPT ![k] = IdleSave]
    /\ lastTrans' = {}
    /\ UNCHANGED <<runVars, internalState, nodeStateFlowId, nodeContext, loads>>

\* flowService.updateFlow rejects: lines 64-71.
SaveUpdateFails(k) ==
    /\ saves[k].pc = "update"
    /\ ApplyNodes(RestoreNodes("updateThrows", saves[k].currentNodes, nodes))
    /\ lastOp' = SaveReturn(k, "updateThrows")
    /\ saves' = [saves EXCEPT ![k] = IdleSave]
    /\ lastTrans' = {}
    /\ UNCHANGED <<runVars, internalState, nodeStateFlowId, nodeContext, flows, loads>>

\* ----------------------------------------------- loadFlowWithCompleteState
\* flow.nodes.forEach(node => node.data?.internal_state && setNodeInternalState(...))
RestoreInternalStates(is, fnodes) ==
    [n \in NodeIds |->
        IF fnodes[n] \notin {Missing, NoKey}
        THEN SetNodeInternalStateOp(is, n, fnodes[n])[n]
        ELSE is[n]]

\* if (flow.data?.nodeContextData) importNodeContextData(flow.data.nodeContextData)
RestoreContextNever(store, ctx) == store

RestoreContext(store, ctx) ==
    IF ctx.has THEN ImportNodeContextData(ctx.map) ELSE store

\* resetAllNodes(), before the base load.
LoadKeepsContext(store) == store

LoadClearsContext(store) == ResetAllNodes

\* catch (error) { console.error(...); throw error; }
LoadCatchSwallows(outcome) == "ok"

LoadCatch(outcome) == outcome

Pending(j) == loads[j].pc = "base"

LoadReturn(j, kind) ==
    <<"loadReturn", [kind |-> kind, alone |-> loads[j].alone, stale |-> loads[j].stale]>>

\* Lines 76-87, up to the await of loadFlow.
LoadBegin(j, i) ==
    /\ loads[j].pc = "idle"
    /\ flows[i].id # 0
    /\ nodeStateFlowId' = flows[i].id
    /\ internalState' = ClearAllNodeStates
    /\ nodeContext' = LoadClearsContext(nodeContext)
    /\ loads' = [h \in 1..MaxLoads |->
                   IF h = j
                   THEN [pc |-> "base", flow |-> flows[i],
                         alone |-> \A g \in 1..MaxLoads : ~Pending(g),
                         stale |-> /\ nodeContext # NoStates
                                   /\ nodeStateFlowId \notin {0, flows[i].id}
                                   /\ flows[nodeStateFlowId].ctx = Ctx(nodeContext),
                         over |-> NoFlow]
                   ELSE IF Pending(h)
                   THEN [loads[h] EXCEPT !.alone = FALSE, !.over = flows[i]]
                   ELSE loads[h]]
    /\ lastOp' = <<"other", "">>
    /\ lastTrans' = {}
    /\ UNCHANGED <<nodes, runVars, compVars, flows, saves>>

\* loadFlow resolves, the graph applied: lines 87-103.
LoadBaseOk(j) ==
    /\ Pending(j)
    /\ ApplyNodes(loads[j].flow.nodes)
    /\ internalState' = RestoreInternalStates(internalState, loads[j].flow.nodes)
    /\ nodeContext' = RestoreContext(nodeContext, loads[j].flow.ctx)
    /\ lastOp' = LoadReturn(j, "ok")
    /\ loads' = [loads EXCEPT ![j] = IdleLoad]
    /\ lastTrans' = {}
    /\ UNCHANGED <<runVars, nodeStateFlowId, flows, saves>>

\* loadFlow rejects: lines 104-107, the error re-thrown.
LoadBaseFails(j) ==
    /\ Pending(j)
    /\ lastOp' = LoadReturn(j, LoadCatch("throw"))
    /\ loads' = [loads EXCEPT ![j] = IdleLoad]
    /\ lastTrans' = {}
    /\ UNCHANGED <<nodes, runVars, compVars, internalState, nodeStateFlowId,
                   nodeContext, flows, saves>>

\* ------------------------------------------------ writers of the two stores
\* A node component writes its internal state (use-node-state).
SetNodeInternalState(n, v) ==
    /\ Mounted(n)
    /\ internalState[n] # v
    /\ internalState' = SetNodeInternalStateOp(internalState, n, v)
    /\ lastOp' = <<"other", "">>
    /\ lastTrans' = {}
    /\ UNCHANGED <<nodes, runVars, compVars, nodeStateFlowId, nodeContext, flows,
                   saves, loads>>

\* An agent's runtime data is written to the Node Context Store: an entry is
\* written only for a node of the graph.
SetContext(n, p) ==
    /\ Mounted(n)
    /\ nodeContext[n] # p
    /\ nodeContext' = [nodeContext EXCEPT ![n] = p]
    /\ loads' = [h \in 1..MaxLoads |-> [loads[h] EXCEPT !.alone = FALSE]]
    /\ lastOp' = <<"other", "">>
    /\ lastTrans' = {}
    /\ UNCHANGED <<nodes, runVars, compVars, internalState, nodeStateFlowId, flows,
                   saves>>

\* ------------------------------------------------------------------- Next
NextRun ==
    \/ \E n \in StartNodes, v \in TickerInputs : HandleTickersChange(n, v)
    \/ \E n \in StartNodes : HandlePlay(n)
    \/ \E s \in 1..MaxRuns : OnEvent(s)
    \/ \E s \in 1..MaxRuns, e \in EventTypes : ServerEmit(s, e)
    \/ \E n \in NodeIds : OnNodesChange(n)

NextFlow ==
    \/ \E k \in 1..MaxSaves : SaveSnapshotFails(k)
    \/ \E k \in 1..MaxSaves : SaveBegin(k)
    \/ \E k \in 1..MaxSaves, i \in FlowIds : SaveBaseOk(k, i)
    \/ \E k \in 1..MaxSaves, path \in SavePaths : SaveBaseFails(k, path)
    \/ \E k \in 1..MaxSaves : SaveUpdateOk(k)
    \/ \E k \in 1..MaxSaves : SaveUpdateFails(k)
    \/ \E j \in 1..MaxSeqLoads, i \in FlowIds : LoadBegin(j, i)
    \/ \E j \in 1..MaxSeqLoads : LoadBaseOk(j)
    \/ \E j \in 1..MaxSeqLoads : LoadBaseFails(j)
    \/ \E n \in AgentNodes, v \in {Empty} \cup Blobs : SetNodeInternalState(n, v)
    \/ \E n \in AgentNodes, p \in Payloads : SetContext(n, p)
    \/ \E n \in AgentNodes : OnNodesChange(n)

\* Runs on one flow, then a switch to another.
NextSwitch ==
    \/ \E n \in StartNodes, v \in TickerInputs : HandleTickersChange(n, v)
    \/ \E n \in StartNodes : HandlePlay(n)
    \/ \E s \in 1..MaxRuns : OnEvent(s)
    \/ \E s \in 1..MaxRuns, e \in EventTypes : ServerEmit(s, e)
    \/ \E j \in 1..MaxSeqLoads, i \in FlowIds : LoadBegin(j, i)
    \/ \E j \in 1..MaxSeqLoads : LoadBaseOk(j)
    \/ \E j \in 1..MaxSeqLoads : LoadBaseFails(j)

\* Loads requested while other loads are suspended.
NextLoads ==
    \/ \E j \in 1..MaxLoads, i \in FlowIds : LoadBegin(j, i)
    \/ \E j \in 1..MaxLoads : LoadBaseOk(j)
    \/ \E j \in 1..MaxLoads : LoadBaseFails(j)

Next == NextRun \/ NextFlow

\* The run lifecycle alone, the save/load coordination alone, and the two together.
SpecRun == Init /\ [][NextRun]_vars

SpecFlow == Init /\ [][NextFlow]_vars

Spec == Init /\ [][Next]_vars

\* Flow switches over persisted records: with runs, and overlapping each other.
SpecSwitch == InitStored /\ [][NextSwitch]_vars

SpecLoads == InitStored /\ [][NextLoads]_vars

\* ------------------------------------------------------------ run claims
\* C1: at most one run session is non-terminal (open, un-cancelled, neither
\* complete nor error delivered) at any instant, whichever start node of the
\* workspace the runs were started from.
C1_AtMostOneLiveRun == Cardinality(LiveRuns) <= 1

\* C2: once a later run has been started, no event of an earlier run mutates
\* the Node Status Store: the store is written only by events of the run
\* started last.
C2_OnlyLatestRunWrites == statusWriter \in {0, nextRun - 1}

\* C3: right after handlePlay returns, every node id has status IDLE except
\* the initiating node, which is IN_PROGRESS.
C3_PlayLeavesOnlyInitiatorInProgress ==
    lastOp[1] = "handlePlay" =>
        \A m \in NodeIds :
            nodeStates[m] = IF m = lastOp[2] THEN "IN_PROGRESS" ELSE "IDLE"

\* A run was started after an earlier run had ended and left its status behind.
C3_Witness ==
    /\ lastOp[1] = "handlePlay"
    /\ \E s \in 1..MaxRuns : runs[s].st = "terminal"
    /\ \E t \in lastTrans : t[1] = "resetAll" /\ t[3] \in {"COMPLETE", "ERROR"}

\* C4: a node's status changes only along IDLE -> IN_PROGRESS,
\* IN_PROGRESS -> COMPLETE, IN_PROGRESS -> ERROR, or any state -> IDLE by
\* resetAll.
AllowedTransition(t) ==
    \/ t[1] = "resetAll" /\ t[4] = "IDLE"
    \/ t[1] = "setStatus" /\ t[3] = "IDLE" /\ t[4] = "IN_PROGRESS"
    \/ t[1] = "setStatus" /\ t[3] = "IN_PROGRESS" /\ t[4] \in {"COMPLETE", "ERROR"}

C4_OnlyAllowedTransitions == \A t \in lastTrans : AllowedTransition(t)

\* ------------------------------------------------------- save/load claims
\* The step in which suspended save k returns, and on which path.
SaveReturned(k) == saves[k].pc # "idle" /\ saves'[k].pc = "idle"

SaveSucceeded(k) ==
    SaveReturned(k) /\ lastOp'[1] = "saveReturn" /\ lastOp'[2].path = "updated"

\* The step in which suspended load j completes without error.
LoadCompleted(j) ==
    /\ Pending(j) /\ ~Pending(j)'
    /\ lastOp'[1] = "loadReturn" /\ lastOp'[2].kind = "ok"

\* C5: save then load round trip. The flow a successful save returns carries,
\* for every node of the saved graph with a non-empty internal state S, the
\* blob S, and the context mapping the save exported; and loading a flow
\* leaves every node whose data carries a blob with that blob as its internal
\* state and every entry of the flow's context mapping in the store.
C5_SaveLoadRoundTrip ==
    [][ /\ \A k \in 1..MaxSaves : SaveSucceeded(k) =>
              LET returned == flows'[saves[k].flow.id]
              IN  /\ \A n \in NodeIds :
                        (saves[k].currentNodes[n] # Missing /\ HasState(saves[k].states[n]))
                            => returned.nodes[n] = saves[k].states[n]
                  /\ returned.ctx = Ctx(saves[k].nodeContextData)
        /\ \A j \in 1..MaxLoads : LoadCompleted(j) =>
              LET flow == loads[j].flow
              IN  /\ \A n \in NodeIds :
                        flow.nodes[n] \in Blobs => internalState'[n] = flow.nodes[n]
                  /\ \A n \in NodeIds :
                        (flow.ctx.has /\ flow.ctx.map[n] # None)
                            => nodeContext'[n] = flow.ctx.map[n]
      ]_vars

\* A flow saved with blob x1 and context p for portfolio_manager was loaded,
\* and both are back.
C5_Witness ==
    /\ lastOp[1] = "loadReturn" /\ lastOp[2].kind = "ok"
    /\ nodes["portfolio_manager"] = "x1"
    /\ internalState["portfolio_manager"] = "x1"
    /\ nodeContext["portfolio_manager"] = "p"
    /\ \E i \in FlowIds : /\ flows[i].nodes["portfolio_manager"] = "x1"
                          /\ flows[i].ctx = Ctx(nodeContext)

\* C6: flow switch isolation. When a load that ran by itself (no other load
\* and no context write while it was suspended) completes, the Node Context
\* Store holds exactly the loaded flow's context mapping, and nothing when the
\* flow carries none.
C6_FlowSwitchIsolation ==
    [][ \A j \in 1..MaxLoads : (LoadCompleted(j) /\ loads[j].alone) =>
            nodeContext' = IF loads[j].flow.ctx.has THEN loads[j].flow.ctx.map
                           ELSE NoStates
      ]_vars

\* A flow without a context mapping was loaded while the store held the
\* context mapping of the flow open before.
C6_Witness ==
    /\ lastOp[1] = "loadReturn" /\ lastOp[2].kind = "ok"
    /\ lastOp[2].alone /\ lastOp[2].stale
    /\ nodeContext = NoStates
    /\ nodeStateFlowId # 0 /\ ~flows[nodeStateFlowId].ctx.has

\* C7: a node whose internal state is absent or empty when a save begins gets
\* no internal_state key in the node data the save writes to the record.
C7_NoKeyForEmptyState ==
    \A k \in 1..MaxSaves : saves[k].pc = "update" =>
        \A n \in NodeIds :
            (saves[k].currentNodes[n] # Missing /\ ~HasState(saves[k].states[n]))
                => saves[k].flow.nodes[n] = NoKey

\* C8: when a save that wrote its graph to a record returns, that record,
\* while it holds the graph, carries the context mapping the save exported.
C8_SaveAtomic ==
    [][ \A k \in 1..MaxSaves : (SaveReturned(k) /\ saves[k].pc = "update") =>
            LET record == flows'[saves[k].flow.id]
            IN  record.nodes = saves[k].flow.nodes
                    => record.ctx = Ctx(saves[k].nodeContextData)
      ]_vars

\* C9: on every path of a save that applied the enhanced node list, the live
\* node list on return is the list snapshotted when the save began.
C9_NodesRestored ==
    [][ \A k \in 1..MaxSaves : SaveReturned(k) => nodes' = saves[k].currentNodes ]_vars

\* A save whose enhancement attached a blob returned on a failure path, and
\* the live node is without the key again.
C9_Witness ==
    /\ lastOp[1] = "saveReturn"
    /\ lastOp[2].path \in {"baseNull", "baseThrows", "updateThrows"}
    /\ internalState["portfolio_manager"] = "x1"
    /\ nodes["portfolio_manager"] = NoKey

\* C10: a save never throws to its caller: it returns the updated Flow when
\* the base save and the context update both succeeded, and null otherwise.
C10_SaveNeverThrows ==
    lastOp[1] = "saveReturn" =>
        /\ lastOp[2].kind # "throw"
        /\ lastOp[2].kind = IF lastOp[2].path = "updated" THEN "flow" ELSE "null"

\* The context update failed after the base save had succeeded: null.
C10_Witness ==
    /\ lastOp[1] = "saveReturn"
    /\ lastOp[2].path = "updateThrows"
    /\ lastOp[2].kind = "null"
    /\ \E i \in FlowIds : flows[i].id # 0

\* ---------------------------------------------------- flow switch and runs
\* C11: when a load completes, every node id has status IDLE: no COMPLETE,
\* ERROR or IN_PROGRESS of a run on the flow open before is left in the Node
\* Status Store.
C11_LoadResetsStatuses ==
    [][ \A j \in 1..MaxLoads : LoadCompleted(j) =>
            \A n \in NodeIds : nodeStates'[n] = "IDLE"
      ]_vars

\* ------------------------------------------------------ more run claims
\* The step in which the handler is handed run s's next event, that event
\* being neither complete nor error.
OtherEventHandled(s) ==
    /\ Live(s)
    /\ runs[s].queue # <<>>
    /\ Head(runs[s].queue) \notin Terminal
    /\ runs' = [runs EXCEPT ![s].queue = Tail(runs[s].queue)]

\* C12: an event that is neither complete nor error and identifies a node id
\* is forwarded to the Node Context Store entry of that node id, and the
\* session stays non-terminal.
C12_OtherEventsForwarded ==
    [][ \A s \in 1..MaxRuns :
            (OtherEventHandled(s) /\ EventNode(Head(runs[s].queue)) \in NodeIds) =>
                /\ nodeContext'[EventNode(Head(runs[s].queue))] # None
                /\ Live(s)'
      ]_vars

\* The step in which the handler is handed run s's error event.
ErrorHandled(s) ==
    /\ Live(s)
    /\ runs[s].queue # <<>>
    /\ Head(runs[s].queue) = "error"
    /\ ~Live(s)'
    /\ lastOp'[1] = "event"

\* C13: an error event on a stream sets the initiating node's status to ERROR
\* and ends the session, no request being issued in that step; and a run
\* request is issued to the collaborator by handlePlay alone, so that nothing
\* retries after an error or a cancellation.
C13_ErrorHandledNoRetry ==
    [][ /\ \A s \in 1..MaxRuns : ErrorHandled(s) =>
              /\ nodeStates'[runs[s].owner] = "ERROR"
              /\ runs'[s].st = "terminal"
              /\ nextRun' = nextRun
        /\ (nextRun' # nextRun \/ \E s \in 1..MaxRuns : ~Live(s) /\ Live(s)')
              => lastOp'[1] = "handlePlay"
      ]_vars

\* An error event was handled: its start node shows ERROR, may be played
\* again, and no stream is open.
C13_Witness ==
    /\ lastOp[1] = "event"
    /\ nodeStates[lastOp[2]] = "ERROR"
    /\ ~isProcessing[lastOp[2]]
    /\ \E s \in 1..MaxRuns : runs[s].st = "terminal" /\ runs[s].owner = lastOp[2]
    /\ LiveRuns = {}
    /\ nextRun <= MaxRuns

\* -------------------------------------------------- more save/load claims
\* C14: when a load completes, every node id whose internal state or Node
\* Context Store entry it restored is a node of the graph just loaded.
C14_RestoredIdsInGraph ==
    [][ \A j \in 1..MaxLoads : LoadCompleted(j) =>
            \A n \in NodeIds :
                /\ loads[j].flow.nodes[n] \in Blobs => nodes'[n] # Missing
                /\ (loads[j].flow.ctx.has /\ loads[j].flow.ctx.map[n] # None)
                       => (nodeContext'[n] # None => nodes'[n] # Missing)
      ]_vars

\* The step in which suspended load j returns to its caller, either way.
LoadReturned(j) == Pending(j) /\ ~Pending(j)' /\ lastOp'[1] = "loadReturn"

LastRequested(j) == IF loads[j].over.id # 0 THEN loads[j].over ELSE loads[j].flow

\* C16: when the last of two overlapping loads completes, the Node Context
\* Store and the internal states hold the data of the flow requested last,
\* and nothing else.
C16_OverlappingLoads ==
    [][ \A j \in 1..MaxLoads :
            (LoadCompleted(j) /\ ~loads[j].alone /\ \A h \in 1..MaxLoads : ~Pending(h)') =>
                LET F == LastRequested(j)
                IN  /\ nodeContext' = IF F.ctx.has THEN F.ctx.map ELSE NoStates
                    /\ internalState' = [n \in NodeIds |->
                            IF F.nodes[n] \in Blobs THEN F.nodes[n] ELSE None]
      ]_vars

\* C17: a change to the live node list made while a save is suspended (an
\* edit, or a load applying another graph) is discarded when the save
\* returns: the live node list is again the list snapshotted at its start.
C17_MidSaveEditDiscarded ==
    [][ \A k \in 1..MaxSaves : (SaveReturned(k) /\ Edited(k)) =>
            /\ nodes' = saves[k].currentNodes
            /\ \A n \in NodeIds : (nodes[n] = Missing) # (saves[k].currentNodes[n] = Missing)
                                      => nodes'[n] # nodes[n]
      ]_vars

\* A save during which the node list changed returned the updated Flow.
C17_Witness ==
    /\ lastOp[1] = "saveReturn"
    /\ lastOp[2].edited
    /\ lastOp[2].kind = "flow"
    /\ nodes["portfolio_manager"] # Missing

\* ------------------------------------------------ more run claims, per node
\* The step in which start node n's handlePlay issues a run request.
PlayedBy(n) == nextRun' = nextRun + 1 /\ lastOp' = <<"handlePlay", n>>

\* C18: the selected_agents submitted with a run request are the ids of the
\* graph's nodes at that moment without the start node itself and without
\* portfolio_manager.
C18_SelectedAgentsFiltered ==
    [][ \A n \in StartNodes : PlayedBy(n) =>
            runs'[nextRun].agents =
                {m \in NodeIds : nodes[m] # Missing} \ {n, "portfolio_manager"}
      ]_vars

\* C19, as stated: a start node begins a run only with isProcessing false and
\* a non-blank ticker input, and only when every earlier run of that node has
\* delivered complete or error; isProcessing of a mounted start node turns
\* true by handlePlay alone and false by a handled complete or error alone.
C19_NoSecondRunBeforeTerminal ==
    [][ \A n \in StartNodes :
            /\ PlayedBy(n) =>
                  /\ ~isProcessing[n] /\ Trim(tickers[n]) # <<>>
                  /\ \A s \in 1..MaxRuns : runs[s].owner = n => runs[s].st = "terminal"
            /\ (~isProcessing[n] /\ isProcessing'[n]) => PlayedBy(n)
            /\ (isProcessing[n] /\ ~isProcessing'[n] /\ Mounted(n)')
                  => lastOp' = <<"event", n>>
      ]_vars

\* C19, amended: a start node begins a run only with isProcessing false and a
\* non-blank ticker input, and only when no earlier run of that node is still
\* open: each has delivered complete or error, or was cancelled as the node
\* unmounted. isProcessing turns true by handlePlay alone, and false by a
\* handled complete or error or by the unmount, which discards it.
C19_NoSecondRunWhileOpen ==
    [][ \A n \in StartNodes :
            /\ PlayedBy(n) =>
                  /\ ~isProcessing[n] /\ Trim(tickers[n]) # <<>>
                  /\ \A s \in 1..MaxRuns : runs[s].owner = n => ~Live(s)
            /\ (~isProcessing[n] /\ isProcessing'[n]) => PlayedBy(n)
            /\ (isProcessing[n] /\ ~isProcessing'[n])
                  => \/ lastOp' = <<"event", n>>
                     \/ Mounted(n) /\ ~Mounted(n)'
      ]_vars

\* A start node whose run was cancelled by its unmount, no complete or error
\* delivered, was mounted again and began a second run.
C19_Witness ==
    /\ lastOp[1] = "handlePlay"
    /\ isProcessing[lastOp[2]]
    /\ \E s \in 1..MaxRuns : runs[s].owner = lastOp[2] /\ runs[s].st = "cancelled"
    /\ \E s \in 1..MaxRuns : runs[s].owner = lastOp[2] /\ Live(s)

\* C20: a node whose status is IN_PROGRESS is the initiating node of a run
\* session that is still open.
C20_InProgressHasLiveRun ==
    \A n \in NodeIds :
        nodeStates[n] = "IN_PROGRESS" => \E s \in 1..MaxRuns : Live(s) /\ runs[s].owner = n

====
